---------------------------- MODULE Spec2Model ----------------------------
(***************************************************************************)
(* Model of the embossed-cylinder generator: the App component (config,    *)
(* exportFn, isProcessing, handleExport), the CylinderObject component     *)
(* (export effect, debounced update-geometry effect, the committed         *)
(* displayGeoPositive / displayGeoNegative pair) and the geometry helpers  *)
(* generateHeightMap and applyDisplacement.                                *)
(*                                                                         *)
(* Units.  Lengths (radius, height, emboss depth, vertex coordinates) are  *)
(* integers counting 1/20 mm, so 15 mm is 300 and the 0.05 mm slider step  *)
(* is 1.  minRadiusThreshold is carried in tenths of that unit (the code   *)
(* multiplies the radius by 0.9).  UV coordinates are numerators over 40   *)
(* (0.05 is 2, 0.95 is 38).  Normals are numerators over 15.  A smoothstep *)
(* weight is a numerator over 51^3 (the band 0.40..0.60 of an 8-bit        *)
(* intensity is 102/255..153/255, i.e. 51 steps).                          *)
(***************************************************************************)
EXTENDS Integers, Sequences, FiniteSets, TLC

VARIABLES
    mounted,             \* CylinderObject has mounted and its effects have run
    config,              \* App: useState<AppState>(DEFAULT_STATE)
    exportFn,            \* App: the export function has been registered
    isProcessing,        \* App: the busy signal
    displayGeoPositive,  \* CylinderObject: committed positive mesh, or NoGeo
    displayGeoNegative,  \* CylinderObject: committed negative mesh, or NoGeo
    cycles,              \* one record per run of the update-geometry effect
    changes,             \* number of configuration changes so far
    lastExport,          \* outcome of the most recent handleExport call
    exported,            \* what the most recent serialization read
    vtx,                 \* displacement check: the vertex handed to applyDisplacement
    dpar,                \* displacement check: heightmap, scale and threshold
    dout                 \* displacement check: the resulting vertex, or NoOut

appVars   == <<mounted, config, exportFn, isProcessing, displayGeoPositive,
               displayGeoNegative, cycles, changes, lastExport, exported>>
dispVars  == <<vtx, dpar, dout>>
vars      == <<mounted, config, exportFn, isProcessing, displayGeoPositive,
               displayGeoNegative, cycles, changes, lastExport, exported,
               vtx, dpar, dout>>

---------------------------------------------------------------------------
(* Bounds of the model *)

\* configuration changes explored per behaviour
MaxChanges == 3

\* side of the (square) heightmap explored; the program uses 4096
MapSize == 4

---------------------------------------------------------------------------
(* Program constants *)

\* edgeStart = 0.40 as an 8-bit intensity: 0.40 * 255
edgeStart == 102

\* edgeEnd = 0.60 as an 8-bit intensity: 0.60 * 255
edgeEnd == 153

\* number of bytes per pixel of the RGBA image data
RGBA == 4

\* denominators of the fixed-point encodings described above
UVDen   == 8 * 5
NormDen == 3 * 5
ThrDen  == 2 * 5
BandLen == edgeEnd - edgeStart
WDen    == BandLen * BandLen * BandLen

Abs(n) == IF n < 0 THEN -n ELSE n
Min(a, b) == IF a < b THEN a ELSE b
Max(a, b) == IF a < b THEN b ELSE a

---------------------------------------------------------------------------
(* Configuration *)

DEFAULT_STATE ==
    [patternType    |-> "text",
     text           |-> "VINO",
     imageSrc       |-> "null",
     cylinderRadius |-> 300,
     cylinderHeight |-> 1200,
     embossDepth    |-> 8]

\* the partial updates the controls can send to handleConfigChange
Updates ==
    {[f |-> "patternType", val |-> "text"],
     [f |-> "patternType", val |-> "image"],
     [f |-> "text", val |-> "AB"],
     [f |-> "imageSrc", val |-> "img"],
     [f |-> "embossDepth", val |-> 12],
     [f |-> "cylinderRadius", val |-> 400]}

\* setConfig(prev => ({ ...prev, ...updates }))
handleConfigChange(prev, upd) == [prev EXCEPT ![upd.f] = upd.val]

---------------------------------------------------------------------------
(* Heightmaps and meshes *)

NoGeo    == [cycle |-> 0]
NoCanvas == [cycle |-> 0]

\* The pixels a pattern leaves on the canvas, as the two parameters of Data
\* (below): a canvas nothing was stamped on is black throughout (the black
\* fillRect, or the untouched transparent-black buffer when there is no
\* context); each stamped content lights its own pixels.
Raster(pattern) ==
    IF pattern[1] = "blank" THEN [a |-> 0, b |-> 0]
    ELSE IF pattern[1] = "image" THEN [a |-> 1, b |-> 5]
    ELSE IF pattern[2] = "VINO" THEN [a |-> 1, b |-> 0]
    ELSE [a |-> 1, b |-> 3]

\* What generateHeightMap draws: the tiled text, the tiled image when it has
\* a natural width (drawn), nothing without a context.
Pattern(cfg, hasCtx, drawn) ==
    IF hasCtx /\ drawn
    THEN IF cfg.patternType = "text"
         THEN <<"text", cfg.text>>
         ELSE <<"image", cfg.imageSrc>>
    ELSE <<"blank", "">>

\* The canvas generateHeightMap returns.  Its pixels are a function of the
\* arguments alone: hasCtx says whether a 2D context could be acquired,
\* pattern is what has been drawn ("blank" when nothing was stamped).
generateHeightMap(c, cfg, hasCtx, drawn) ==
    [cycle   |-> c,
     width   |-> MapSize,
     height  |-> MapSize,
     hasCtx  |-> hasCtx,
     pattern |-> Pattern(cfg, hasCtx, drawn),
     a       |-> Raster(Pattern(cfg, hasCtx, drawn)).a,
     b       |-> Raster(Pattern(cfg, hasCtx, drawn)).b]

\* buildCylinderGeometry(radius, height, 0): a fresh, undisplaced solid
buildCylinderGeometry(c, radius, height) ==
    [cycle  |-> c,
     radius |-> radius,
     height |-> height,
     canvas |-> NoCanvas,
     scale  |-> 0,
     thr    |-> 0,
     pass   |-> "built"]

\* applyDisplacement on a whole mesh, which it changes in place: the record
\* keeps the heightmap, scale and threshold the pass was given and whether
\* the pass ran over the vertices ("displaced") or returned at once for want
\* of a context ("noctx"); a mesh no pass has finished on is "built".
applyDisplacement_Unfinished(geo, canvas, displacementScale, minRadiusThreshold) ==
    [geo EXCEPT !.canvas = canvas,
                !.scale = displacementScale,
                !.thr = minRadiusThreshold]

applyDisplacement(geo, canvas, displacementScale, minRadiusThreshold) ==
    [geo EXCEPT !.canvas = canvas,
                !.scale = displacementScale,
                !.thr = minRadiusThreshold,
                !.pass = IF canvas.hasCtx THEN "displaced" ELSE "noctx"]


---------------------------------------------------------------------------
(* applyDisplacement, vertex by vertex *)

\* JavaScript's % : the result takes the sign of the dividend
JsRem(a, b) == IF a >= 0 THEN a % b ELSE -((-a) % b)

\* intensities a heightmap byte takes in the displacement check
Intensities == <<0, 102, 103, 128, 152, 153, 255>>

\* data[index] of ctx.getImageData(0, 0, width, height): the red byte of
\* pixel index / 4; -1 stands for undefined (an index outside the buffer).
\* The canvases of the displacement check carry two parameters a, b that
\* decide which intensity each pixel holds.
Data(canvas, index) ==
    IF index < 0 \/ index >= canvas.width * canvas.height * RGBA
    THEN -1
    ELSE Intensities[((canvas.a * (index \div RGBA) + canvas.b)
                        % Len(Intensities)) + 1]

\* if (r < minRadiusThreshold) continue;   r = sqrt(x*x + z*z)
RadiusSkip_Inverted(x, z, minRadiusThreshold) ==
    minRadiusThreshold > 0
    /\ ThrDen * ThrDen * (x * x + z * z) > minRadiusThreshold * minRadiusThreshold

RadiusSkip(x, z, minRadiusThreshold) ==
    minRadiusThreshold > 0
    /\ ThrDen * ThrDen * (x * x + z * z) < minRadiusThreshold * minRadiusThreshold

\* if (Math.abs(ny) > 0.5) continue;
CapSkip_OnlyVertical(ny) == Abs(ny) >= NormDen

CapSkip(ny) == 2 * Abs(ny) > NormDen

\* if (v < 0.05 || v > 0.95) continue;
SafeZoneSkip_BottomOnly(v) == 20 * v < UVDen

SafeZoneSkip(v) == 20 * v < UVDen \/ 20 * v > 19 * UVDen

\* Math.floor(u * width) % width, made non-negative
SamplePixel_NoWrap(u, width) == JsRem((u * width) \div UVDen, width)

SamplePixel(u, width) ==
    LET p == JsRem((u * width) \div UVDen, width)
    IN  IF p < 0 THEN p + width ELSE p

\* the smoothstep weight of an intensity p (rawHeight = p / 255), as a
\* numerator over WDen; an undefined sample compares false and gives 0
HeightValue_Unclamped(p) ==
    IF p > edgeStart
    THEN LET t == p - edgeStart
         IN  t * t * (3 * BandLen - 2 * t)
    ELSE 0

HeightValue_Linear(p) ==
    IF p > edgeStart
    THEN LET t == Min(Max(p - edgeStart, 0), BandLen)
         IN  t * BandLen * BandLen
    ELSE 0

HeightValue(p) ==
    IF p > edgeStart
    THEN LET t == Min(Max(p - edgeStart, 0), BandLen)
         IN  t * t * (3 * BandLen - 2 * t)
    ELSE 0

\* One iteration of the vertex loop.  The result is the vertex position as
\* pos + off / (NormDen * WDen), with the weight that was computed (0 when
\* the vertex was skipped before sampling) and the sampled pixel and buffer
\* index (empty when the vertex was skipped before sampling).
DisplaceVertex(v, canvas, displacementScale, minRadiusThreshold) ==
    LET still == [pos |-> <<v.x, v.y, v.z>>, off |-> <<0, 0, 0>>, weight |-> 0,
                  sample |-> <<>>]
    IN  IF ~canvas.hasCtx THEN still
        ELSE IF RadiusSkip(v.x, v.z, minRadiusThreshold) THEN still
        ELSE IF CapSkip(v.ny) THEN still
        ELSE IF SafeZoneSkip(v.v) THEN still
        ELSE LET px == SamplePixel(v.u, canvas.width)
                 py == SamplePixel(v.v, canvas.height)
                 index == (py * canvas.width + px) * RGBA
                 heightValue == HeightValue(Data(canvas, index))
             IN  IF heightValue > 0
                 THEN [pos    |-> <<v.x, v.y, v.z>>,
                       off    |-> <<v.nx * heightValue * displacementScale,
                                    v.ny * heightValue * displacementScale,
                                    v.nz * heightValue * displacementScale>>,
                       weight |-> heightValue,
                       sample |-> <<px, py, index>>]
                 ELSE [still EXCEPT !.weight = heightValue,
                                    !.sample = <<px, py, index>>]

---------------------------------------------------------------------------
(* CylinderObject: the debounced update-geometry effect *)

Latest == Len(cycles)

\* One run of the effect: the closure's config, its isCancelled flag and
\* where its updateGeometry stands: "debounce" (timer armed), "cleared"
\* (timer cleared by the cleanup), "skipped" (returned at its first
\* isCancelled check, before rasterizing), "loading" (awaiting the image),
\* "failed" (the image load rejected), "dropped" (returned at the
\* isCancelled check after generateHeightMap) and "done".  ctx records
\* whether generateHeightMap acquired a context once it has run, startPair
\* the committed pair at the moment the effect ran.
NewCycle_StaleConfig(cfg) ==
    [cfg         |-> config,
     isCancelled |-> FALSE,
     pc          |-> "debounce",
     ctx         |-> "unknown",
     startPair   |-> <<displayGeoPositive, displayGeoNegative>>]

NewCycle(cfg) ==
    [cfg         |-> cfg,
     isCancelled |-> FALSE,
     pc          |-> "debounce",
     ctx         |-> "unknown",
     startPair   |-> <<displayGeoPositive, displayGeoNegative>>]

\* the effect's cleanup: isCancelled = true; clearTimeout(debounceTimer)
CleanupEffect_Missing(cs) == cs

CleanupEffect_KeepsFlag(cs) ==
    IF cs = <<>> THEN cs
    ELSE [cs EXCEPT ![Len(cs)].pc =
             IF @ = "debounce" THEN "cleared" ELSE @]

CleanupEffect(cs) ==
    IF cs = <<>> THEN cs
    ELSE [cs EXCEPT ![Len(cs)].isCancelled = TRUE,
                    ![Len(cs)].pc = IF @ = "debounce" THEN "cleared" ELSE @]

\* onProcessingChange(true) at the start of the effect
StartBusy_Skipped(busy) == busy

StartBusy(busy) == TRUE

\* the effect body: mark busy, arm the 500 ms debounce timer
RunEffect(cfg) ==
    /\ cycles' = Append(CleanupEffect(cycles), NewCycle(cfg))
    /\ isProcessing' = StartBusy(isProcessing)

\* const posGeo = ... / const negGeo = ...: the mesh a call of
\* buildCylinderGeometry returned, together with the local of its cycle that
\* it is bound to; a mesh buffer is identified by its cycle and that local
Bound(geo, local) ==
    [f \in DOMAIN geo \cup {"buf"} |-> IF f = "buf" THEN local ELSE geo[f]]

\* posGeo: built at cylinderRadius, displaced by +embossDepth
PositiveGeo_LowThreshold(c, cfg, canvas) ==
    applyDisplacement(
        Bound(buildCylinderGeometry(c, cfg.cylinderRadius, cfg.cylinderHeight), "posGeo"),
        canvas, cfg.embossDepth, cfg.cylinderRadius * 7)

PositiveGeo(c, cfg, canvas) ==
    applyDisplacement(
        Bound(buildCylinderGeometry(c, cfg.cylinderRadius, cfg.cylinderHeight), "posGeo"),
        canvas, cfg.embossDepth, cfg.cylinderRadius * 9)

\* negGeo: built at outerRadius, displaced by -embossDepth
NegativeGeo_BlankMap(c, cfg, canvas) ==
    LET outerRadius == cfg.cylinderRadius + cfg.embossDepth
    IN  applyDisplacement(
            Bound(buildCylinderGeometry(c, outerRadius, cfg.cylinderHeight), "negGeo"),
            [canvas EXCEPT !.a = 0, !.b = 0], -cfg.embossDepth, outerRadius * 9)

NegativeGeo_SharesPositive(c, cfg, canvas) ==
    LET outerRadius == cfg.cylinderRadius + cfg.embossDepth
    IN  applyDisplacement(
            applyDisplacement(
                Bound(buildCylinderGeometry(c, cfg.cylinderRadius,
                                            cfg.cylinderHeight), "posGeo"),
                canvas, cfg.embossDepth, cfg.cylinderRadius * 9),
            canvas, -cfg.embossDepth, outerRadius * 9)

NegativeGeo_Outward(c, cfg, canvas) ==
    LET outerRadius == cfg.cylinderRadius + cfg.embossDepth
    IN  applyDisplacement(
            Bound(buildCylinderGeometry(c, outerRadius, cfg.cylinderHeight), "negGeo"),
            canvas, cfg.embossDepth, outerRadius * 9)

NegativeGeo_SameRadius(c, cfg, canvas) ==
    applyDisplacement(
        Bound(buildCylinderGeometry(c, cfg.cylinderRadius, cfg.cylinderHeight), "negGeo"),
        canvas, -cfg.embossDepth, cfg.cylinderRadius * 9)

NegativeGeo(c, cfg, canvas) ==
    LET outerRadius == cfg.cylinderRadius + cfg.embossDepth
    IN  applyDisplacement(
            Bound(buildCylinderGeometry(c, outerRadius, cfg.cylinderHeight), "negGeo"),
            canvas, -cfg.embossDepth, outerRadius * 9)

\* if (!isCancelled) setDisplayGeoPositive(posGeo)
setDisplayGeoPositive(cy, cur, geo) == IF ~cy.isCancelled THEN geo ELSE cur

\* if (!isCancelled) setDisplayGeoNegative(negGeo)
setDisplayGeoNegative_Dropped(cy, cur, geo) == cur

setDisplayGeoNegative(cy, cur, geo) == IF ~cy.isCancelled THEN geo ELSE cur

CtxOf(canvas) == IF canvas.hasCtx THEN "yes" ELSE "no"

\* updateGeometry from the point where generateHeightMap has resolved with
\* canvas to its end; synchronous, so one step.
ResumeUpdate(c, canvas) ==
    LET cy == cycles[c]
    IN  IF cy.isCancelled
        THEN /\ cycles' = [cycles EXCEPT ![c].pc = "dropped",
                                         ![c].ctx = CtxOf(canvas)]
             /\ UNCHANGED <<displayGeoPositive, displayGeoNegative, isProcessing>>
        ELSE /\ displayGeoPositive' =
                    setDisplayGeoPositive(cy, displayGeoPositive,
                                          PositiveGeo(c, cy.cfg, canvas))
             /\ displayGeoNegative' =
                    setDisplayGeoNegative(cy, displayGeoNegative,
                                          NegativeGeo(c, cy.cfg, canvas))
             /\ isProcessing' = (IF ~cy.isCancelled THEN FALSE ELSE isProcessing)
             /\ cycles' = [cycles EXCEPT ![c].pc = "done", ![c].ctx = CtxOf(canvas)]

\* whether generateHeightMap has to wait for an image to load: only past
\* the early return for a missing context, and only in the image branch
NeedsImage_IgnoresCtx(cfg, hasCtx) ==
    cfg.patternType = "image" /\ cfg.imageSrc # "null"

NeedsImage(cfg, hasCtx) ==
    hasCtx /\ cfg.patternType = "image" /\ cfg.imageSrc # "null"

---------------------------------------------------------------------------
(* buildCylinderGeometry, vertex by vertex *)

\* halfHole = 7.5: half the side of the 15 x 15 square hole
halfHole == 150

\* the plug is a BoxGeometry(15, plugHeight, 15): half its side
halfPlug == 150

\* the sockets are 15 mm deep at top and bottom: height - 30
socketDepths == 600

\* Math.max(0.1, height - 30)
PlugHeight_OneSocket(height) == Max(2, height - halfPlug * 2)

PlugHeight(height) == Max(2, height - socketDepths)

\* bevelThickness = 1
bevelThickness == 20

\* The extents along the axis of what buildCylinderGeometry(radius, height, 0)
\* merges.  The extrusion is extrudeDepth long plus one bevel at each end
\* and is centred by geometry.center(); the plug is a box centred on the
\* origin.  Ends are given doubled (top2 is twice the y of the top) so that
\* odd lengths stay integers.
BuildExtents(height) ==
    LET extrudeDepth == height - 2 * bevelThickness
        total        == extrudeDepth + 2 * bevelThickness
        plugHeight   == PlugHeight(height)
    IN  [extrudeDepth |-> extrudeDepth,
         top2         |-> total,
         bottom2      |-> -total,
         plugHeight   |-> plugHeight,
         plugTop2     |-> plugHeight,
         plugBottom2  |-> -plugHeight]

\* Math.atan2(x, z) / (2 * Math.PI) + 0.5 as a numerator over UVDen, for the
\* eight directions the sampled vertices lie in (the axes and the diagonals)
CylinderU(x, z) ==
    LET eighth == UVDen \div 8
    IN  IF x = 0 THEN (IF z >= 0 THEN 4 * eighth ELSE 8 * eighth)
        ELSE IF z = 0 THEN (IF x > 0 THEN 6 * eighth ELSE 2 * eighth)
        ELSE IF x > 0 THEN (IF z > 0 THEN 5 * eighth ELSE 7 * eighth)
        ELSE (IF z > 0 THEN 3 * eighth ELSE eighth)

\* (y + height / 2) / height as a numerator over UVDen
CylinderV(y, height) == (UVDen * (2 * y + height)) \div (2 * height)

\* step 5 of buildCylinderGeometry: a vertex of the extrusion farther from
\* the axis than rThreshold = radius * 0.8 gets the cylindrical UV, any
\* other vertex keeps the UV the extrusion gave it (duv)
FixUV(vert, radius, height, duv) ==
    IF 25 * (vert.x * vert.x + vert.z * vert.z) > 16 * radius * radius
    THEN [vert EXCEPT !.u = CylinderU(vert.x, vert.z),
                      !.v = CylinderV(vert.y, height)]
    ELSE [vert EXCEPT !.u = duv[1], !.v = duv[2]]

\* heights at which the vertices of the extrusion are sampled: v = 0, 0.05,
\* 0.1, 0.5, 0.9, 0.95 and 1
SampleHeights(height) ==
    {(k * height) \div UVDen - height \div 2 : k \in {0, 2, 4, 20, 36, 38, 40}}

\* the four axis directions and the four corners of the hole and the plug
AxisDirs   == {<<1, 0>>, <<0, 1>>, <<-1, 0>>, <<0, -1>>}
CornerDirs == {<<1, 1>>, <<1, -1>>, <<-1, 1>>, <<-1, -1>>}

\* A sample of the vertices of buildCylinderGeometry(radius, height, 0): of
\* the outer shell (on the circle of the shape, normal pointing outwards),
\* of the wall of the square hole (at its four corners, where each of the
\* two walls that meet has its own vertex and normal) and of the plug (the
\* corners of its side faces, with the UVs 0 and 1 of a BoxGeometry).  duv
\* is the UV the extrusion gave the vertices that step 5 does not touch.
CylinderVertices(radius, height, duv) ==
    {FixUV([part |-> "shell", x |-> d[1] * radius, y |-> y, z |-> d[2] * radius,
            nx |-> d[1] * NormDen, ny |-> 0, nz |-> d[2] * NormDen,
            u |-> 0, v |-> 0], radius, height, duv) :
        d \in AxisDirs, y \in SampleHeights(height)}
    \cup
    {FixUV([part |-> "hole", x |-> d[1] * halfHole, y |-> y, z |-> d[2] * halfHole,
            nx |-> -d[1] * n[1] * NormDen, ny |-> 0, nz |-> -d[2] * n[2] * NormDen,
            u |-> 0, v |-> 0], radius, height, duv) :
        d \in CornerDirs, y \in SampleHeights(height), n \in {<<1, 0>>, <<0, 1>>}}
    \cup
    {[part |-> "plug", x |-> d[1] * halfPlug, y |-> s * (PlugHeight(height) \div 2),
      z |-> d[2] * halfPlug,
      nx |-> d[1] * n[1] * NormDen, ny |-> 0, nz |-> d[2] * n[2] * NormDen,
      u |-> uu, v |-> (IF s > 0 THEN UVDen ELSE 0)] :
        d \in CornerDirs, s \in {-1, 1}, n \in {<<1, 0>>, <<0, 1>>},
        uu \in {0, UVDen}}

\* the vertex loop of applyDisplacement over the sampled vertices of a mesh
\* that buildCylinderGeometry built and applyDisplacement was called on
DisplacedVertices(geo, duv) ==
    {[vert |-> vert,
      out  |-> DisplaceVertex(vert, geo.canvas, geo.scale, geo.thr)] :
        vert \in CylinderVertices(geo.radius, geo.height, duv)}

---------------------------------------------------------------------------
(* App: handleExport and the registered export function *)

\* groupRef.current: the group is rendered only when both meshes are set
groupRef ==
    IF displayGeoPositive # NoGeo /\ displayGeoNegative # NoGeo
    THEN <<displayGeoPositive, displayGeoNegative>>
    ELSE <<>>

\* handleExport as first written: if (exportFn) exportFn() else alert(...)
ExportOutcome_NoBusyGuard(fn, busy, ref) ==
    IF fn
    THEN IF ref = <<>> THEN "returned" ELSE "serialized"
    ELSE "alertNotReady"

\* handleExport with the guard written as exportFn || !isProcessing
ExportOutcome_OrGuard(fn, busy, ref) ==
    IF fn \/ ~busy
    THEN IF ref = <<>> THEN "returned" ELSE "serialized"
    ELSE IF busy THEN "alertWait" ELSE "alertNotReady"

ExportOutcome(fn, busy, ref) ==
    IF fn /\ ~busy
    THEN IF ref = <<>> THEN "returned" ELSE "serialized"
    ELSE IF busy THEN "alertWait" ELSE "alertNotReady"

---------------------------------------------------------------------------
(* Actions *)

NoOut == [moved |-> FALSE]

Init ==
    /\ mounted = FALSE
    /\ config = DEFAULT_STATE
    /\ exportFn = FALSE
    /\ isProcessing = FALSE
    /\ displayGeoPositive = NoGeo
    /\ displayGeoNegative = NoGeo
    /\ cycles = <<>>
    /\ changes = 0
    /\ lastExport = "none"
    /\ exported = <<>>
    /\ vtx = NoOut
    /\ dpar = NoOut
    /\ dout = NoOut

\* CylinderObject mounts: the export effect registers the export function,
\* the update-geometry effect runs for the first time.
Mount ==
    /\ ~mounted
    /\ mounted' = TRUE
    /\ exportFn' = TRUE
    /\ RunEffect(config)
    /\ UNCHANGED <<config, displayGeoPositive, displayGeoNegative, changes,
                   lastExport, exported, dispVars>>

\* A control changes one field; when mounted the effect's dependencies
\* changed, so the previous effect is cleaned up and the effect runs again.
ConfigChange ==
    \E upd \in Updates :
        LET new == handleConfigChange(config, upd)
        IN  /\ changes < MaxChanges
            /\ new # config
            /\ config' = new
            /\ changes' = changes + 1
            /\ IF mounted
               THEN RunEffect(new)
               ELSE UNCHANGED <<cycles, isProcessing>>
            /\ UNCHANGED <<mounted, exportFn, displayGeoPositive,
                           displayGeoNegative, lastExport, exported, dispVars>>

\* The debounce timer fires: updateGeometry runs up to its first real
\* suspension (an image load) or, when there is none, to its end.
TimerFire ==
    \E c \in 1..Len(cycles), hasCtx \in BOOLEAN :
        LET cy == cycles[c]
        IN  /\ cy.pc = "debounce"
            /\ IF cy.isCancelled
               THEN /\ cycles' = [cycles EXCEPT ![c].pc = "skipped"]
                    /\ UNCHANGED <<displayGeoPositive, displayGeoNegative,
                                   isProcessing>>
               ELSE IF NeedsImage(cy.cfg, hasCtx)
               THEN /\ cycles' = [cycles EXCEPT ![c].pc = "loading",
                                                ![c].ctx = IF hasCtx THEN "yes"
                                                           ELSE "no"]
                    /\ UNCHANGED <<displayGeoPositive, displayGeoNegative,
                                   isProcessing>>
               ELSE ResumeUpdate(c, generateHeightMap(c, cy.cfg, hasCtx,
                                     cy.cfg.patternType = "text"))
            /\ UNCHANGED <<mounted, config, exportFn, changes, lastExport,
                           exported, dispVars>>

\* img.onload: the awaited promise resolves; naturalWidth may be 0
ImageLoaded ==
    \E c \in 1..Len(cycles), natural \in BOOLEAN :
        /\ cycles[c].pc = "loading"
        /\ ResumeUpdate(c, generateHeightMap(c, cycles[c].cfg, TRUE, natural))
        /\ UNCHANGED <<mounted, config, exportFn, changes, lastExport,
                       exported, dispVars>>

\* img.onerror: the awaited promise rejects and updateGeometry ends there
ImageError_Continues(c) ==
    /\ cycles[c].pc = "loading"
    /\ displayGeoPositive' = PositiveGeo(c, cycles[c].cfg,
                                 generateHeightMap(c, cycles[c].cfg, TRUE, FALSE))
    /\ displayGeoNegative' = NegativeGeo(c, cycles[c].cfg,
                                 generateHeightMap(c, cycles[c].cfg, TRUE, FALSE))
    /\ cycles' = [cycles EXCEPT ![c].pc = "failed"]
    /\ UNCHANGED <<mounted, config, exportFn, isProcessing, changes,
                   lastExport, exported, dispVars>>

ImageError(c) ==
    /\ cycles[c].pc = "loading"
    /\ cycles' = [cycles EXCEPT ![c].pc = "failed"]
    /\ UNCHANGED <<mounted, config, exportFn, isProcessing, displayGeoPositive,
                   displayGeoNegative, changes, lastExport, exported, dispVars>>

ImageFails == \E c \in 1..Len(cycles) : ImageError(c)

\* the export button
HandleExport ==
    LET outcome == ExportOutcome(exportFn, isProcessing, groupRef)
    IN  /\ lastExport' = outcome
        /\ exported' = IF outcome = "serialized" THEN groupRef ELSE exported
        /\ UNCHANGED <<mounted, config, exportFn, isProcessing,
                       displayGeoPositive, displayGeoNegative, cycles, changes,
                       dispVars>>

---------------------------------------------------------------------------
(* The displacement check: applyDisplacement on one vertex *)

\* planar positions: on the shell of a radius-300 and a radius-308 solid,
\* at and just inside the 0.9 * 300 threshold, and a corner of the hole
PlanarSet == {<<300, 0>>, <<0, -300>>, <<180, 240>>, <<308, 0>>,
              <<270, 0>>, <<269, 0>>, <<150, 150>>}

\* normals: side normals, a tilted side normal, a bevel normal, a cap
\* normal and a degenerate one
NormalSet == {<<15, 0, 0>>, <<0, 0, -15>>, <<9, 0, 12>>, <<10, 5, 10>>,
              <<12, 9, 0>>, <<0, 15, 0>>, <<0, 0, 0>>}

USet == {-2, 0, 20, 25, 40, 42}
VSet == {-2, 0, 2, 20, 38, 40, 42}
ScaleSet == {-12, -8, 0, 8, 12}
ThresholdSet == {9 * 300, 9 * 308}

VertexSet ==
    {[x |-> p[1], y |-> 0, z |-> p[2], nx |-> n[1], ny |-> n[2], nz |-> n[3],
      u |-> u, v |-> v] : p \in PlanarSet, n \in NormalSet, u \in USet, v \in VSet}

CanvasSet ==
    {[width |-> MapSize, height |-> MapSize, hasCtx |-> h, a |-> a, b |-> b] :
        h \in BOOLEAN, a \in {0, 1}, b \in 0..(Len(Intensities) - 1)}

InitDisp ==
    /\ mounted = FALSE
    /\ config = DEFAULT_STATE
    /\ exportFn = FALSE
    /\ isProcessing = FALSE
    /\ displayGeoPositive = NoGeo
    /\ displayGeoNegative = NoGeo
    /\ cycles = <<>>
    /\ changes = 0
    /\ lastExport = "none"
    /\ exported = <<>>
    /\ vtx \in VertexSet
    /\ dpar \in {[canvas |-> c, scale |-> s, thr |-> t] :
                    c \in CanvasSet, s \in ScaleSet, t \in ThresholdSet}
    /\ dout = NoOut

ApplyToVertex ==
    /\ dout = NoOut
    /\ dout' = DisplaceVertex(vtx, dpar.canvas, dpar.scale, dpar.thr)
    /\ UNCHANGED <<appVars, vtx, dpar>>

NextDisp == ApplyToVertex

SpecDisp == InitDisp /\ [][NextDisp]_vars

---------------------------------------------------------------------------
(* The mesh check: both meshes of one cycle, built and displaced *)

\* configurations of the mesh check: radii of 10, 15 and 20 mm, depths of
\* 0, 0.1, 0.4 and 0.6 mm
ConfigSet ==
    {[DEFAULT_STATE EXCEPT !.cylinderRadius = r, !.embossDepth = d] :
        r \in {200, 300, 400}, d \in {0, 2, 8, 12}}

\* UVs the extrusion may have given a vertex that step 5 leaves alone
DefaultUVSet == {<<0, -40>>, <<10, 20>>, <<40, 40>>}

InitMesh ==
    /\ mounted = FALSE
    /\ config = DEFAULT_STATE
    /\ exportFn = FALSE
    /\ isProcessing = FALSE
    /\ displayGeoPositive = NoGeo
    /\ displayGeoNegative = NoGeo
    /\ cycles = <<>>
    /\ changes = 0
    /\ lastExport = "none"
    /\ exported = <<>>
    /\ vtx = NoOut
    /\ dpar \in {[cfg |-> cfg, canvas |-> c, duv |-> duv] :
                    cfg \in ConfigSet, c \in CanvasSet, duv \in DefaultUVSet}
    /\ dout = NoOut

\* lines 633-646 of updateGeometry on the heightmap dpar.canvas: both meshes
\* are built and displaced
DisplacePair ==
    /\ dout = NoOut
    /\ dout' = [moved |-> TRUE,
                pos   |-> DisplacedVertices(
                              PositiveGeo(1, dpar.cfg, dpar.canvas), dpar.duv),
                neg   |-> DisplacedVertices(
                              NegativeGeo(1, dpar.cfg, dpar.canvas), dpar.duv)]
    /\ UNCHANGED <<appVars, vtx, dpar>>

NextMesh == DisplacePair

SpecMesh == InitMesh /\ [][NextMesh]_vars

---------------------------------------------------------------------------
(* The weight check: the smoothstep of every 8-bit intensity *)

\* largest value of a byte of the image data
MaxByte == 255

InitWeight ==
    /\ mounted = FALSE
    /\ config = DEFAULT_STATE
    /\ exportFn = FALSE
    /\ isProcessing = FALSE
    /\ displayGeoPositive = NoGeo
    /\ displayGeoNegative = NoGeo
    /\ cycles = <<>>
    /\ changes = 0
    /\ lastExport = "none"
    /\ exported = <<>>
    /\ vtx = NoOut
    /\ dpar \in {[p |-> p] : p \in 0..MaxByte}
    /\ dout = NoOut

\* lines 227-242 of applyDisplacement on the sampled byte dpar.p
ComputeWeight ==
    /\ dout = NoOut
    /\ dout' = [moved |-> TRUE, weight |-> HeightValue(dpar.p)]
    /\ UNCHANGED <<appVars, vtx, dpar>>

NextWeight == ComputeWeight

SpecWeight == InitWeight /\ [][NextWeight]_vars

---------------------------------------------------------------------------
(* The build check: the extents of the solid for every height *)

\* cylinder heights explored: 0.05 mm to 65 mm in steps of 0.05 mm
MaxHeight == 1300

InitBuild ==
    /\ mounted = FALSE
    /\ config = DEFAULT_STATE
    /\ exportFn = FALSE
    /\ isProcessing = FALSE
    /\ displayGeoPositive = NoGeo
    /\ displayGeoNegative = NoGeo
    /\ cycles = <<>>
    /\ changes = 0
    /\ lastExport = "none"
    /\ exported = <<>>
    /\ vtx = NoOut
    /\ dpar \in {[height |-> h] : h \in 1..MaxHeight}
    /\ dout = NoOut

\* buildCylinderGeometry(radius, dpar.height, 0)
BuildSolid ==
    /\ dout = NoOut
    /\ dout' = BuildExtents(dpar.height)
    /\ UNCHANGED <<appVars, vtx, dpar>>

NextBuild == BuildSolid

SpecBuild == InitBuild /\ [][NextBuild]_vars

---------------------------------------------------------------------------
(* The tiling check: the stamping loops of generateHeightMap *)

\* width and height of the heightmap in the tiling check, in pixels
TileSize == 8

\* the value at which i++ no longer changes a loop counter (2^53 in the
\* program's double arithmetic); above every finite column count here
CounterCap == 12

\* Math.ceil(size / period) + 2 for size > 0 and period >= 0: the division
\* by a zero period gives Infinity
GridCount(size, period) ==
    IF period = 0
    THEN [inf |-> TRUE, n |-> 0]
    ELSE [inf |-> FALSE, n |-> -((-size) \div period) + 2]

\* i < cols
Below(i, count) == count.inf \/ i < count.n

\* i++
Increment(i) == Min(i + 1, CounterCap)

\* textMetrics.width of the content: 0 for the empty text
TextWidthSet == {0, 3}

\* drawWidth of an image with a natural width: positive
DrawWidthSet == {1, 3}

\* options.spacingX, from the slider's minimum 0 upwards
SpacingXSet == {0, 1, 2}

\* textHeight + scaledSpacingY, drawHeight + scaledSpacingY: positive
PeriodYSet == {3, 8}

InitTile ==
    /\ mounted = FALSE
    /\ config = DEFAULT_STATE
    /\ exportFn = FALSE
    /\ isProcessing = FALSE
    /\ displayGeoPositive = NoGeo
    /\ displayGeoNegative = NoGeo
    /\ cycles = <<>>
    /\ changes = 0
    /\ lastExport = "none"
    /\ exported = <<>>
    /\ vtx = NoOut
    /\ dpar \in {[type |-> "text", tileWidth |-> w, spacingX |-> s, periodY |-> y] :
                    w \in TextWidthSet, s \in SpacingXSet, y \in PeriodYSet}
                \cup
                {[type |-> "image", tileWidth |-> w, spacingX |-> s, periodY |-> y] :
                    w \in DrawWidthSet, s \in SpacingXSet, y \in PeriodYSet}
    /\ dout = NoOut

\* cols and rows are computed and the outer loop starts at i = -1
StartTiling ==
    /\ dout = NoOut
    /\ dout' = [pc   |-> "outer",
                cols |-> GridCount(TileSize, dpar.tileWidth + dpar.spacingX),
                rows |-> GridCount(TileSize, dpar.periodY),
                i    |-> -1,
                j    |-> -1]
    /\ UNCHANGED <<appVars, vtx, dpar>>

\* the test i < cols of the outer loop: enter the inner loop at j = -1, or
\* leave the loops and return the canvas
TestColumn ==
    /\ dout # NoOut
    /\ dout.pc = "outer"
    /\ dout' = IF Below(dout.i, dout.cols)
               THEN [dout EXCEPT !.pc = "inner", !.j = -1]
               ELSE [dout EXCEPT !.pc = "returned"]
    /\ UNCHANGED <<appVars, vtx, dpar>>

\* one pass of the inner loop: stamp the tile and j++
StampTile ==
    /\ dout # NoOut
    /\ dout.pc = "inner"
    /\ Below(dout.j, dout.rows)
    /\ dout' = [dout EXCEPT !.j = Increment(dout.j)]
    /\ UNCHANGED <<appVars, vtx, dpar>>

\* the inner loop ends: i++
NextColumn ==
    /\ dout # NoOut
    /\ dout.pc = "inner"
    /\ ~Below(dout.j, dout.rows)
    /\ dout' = [dout EXCEPT !.pc = "outer", !.i = Increment(dout.i)]
    /\ UNCHANGED <<appVars, vtx, dpar>>

NextTile ==
    \/ StartTiling
    \/ TestColumn
    \/ StampTile
    \/ NextColumn

\* a running function keeps running: the loops take their next step
SpecTile == InitTile /\ [][NextTile]_vars /\ WF_vars(NextTile)

Next ==
    \/ Mount
    \/ ConfigChange
    \/ TimerFire
    \/ ImageLoaded
    \/ ImageFails
    \/ HandleExport

Spec == Init /\ [][Next]_vars

\* Spec with the scheduling the browser guarantees: an armed timer that is
\* not cleared fires, and an image load that was started ends, in onload or
\* in onerror.
SpecFair ==
    /\ Init
    /\ [][Next]_vars
    /\ WF_vars(TimerFire)
    /\ WF_vars(ImageLoaded \/ ImageFails)

---------------------------------------------------------------------------
(* Properties of the orchestrator (specification Spec) *)

Committed == displayGeoPositive # NoGeo /\ displayGeoNegative # NoGeo

\* a pair whose two meshes come from one cycle and one heightmap, each with
\* its displacement pass finished
Consistent(pair) ==
    /\ Len(pair) = 2
    /\ pair[1] # NoGeo
    /\ pair[2] # NoGeo
    /\ pair[1].cycle = pair[2].cycle
    /\ pair[1].canvas = pair[2].canvas
    /\ pair[1].canvas.cycle = pair[1].cycle
    /\ pair[1].pass # "built"
    /\ pair[2].pass # "built"

\* C1: a cycle commits only while it is the latest cycle issued: once a newer
\* cycle exists, an older one changes neither committed mesh, so every
\* commit installs the latest cycle's positive and negative together and
\* the committing cycles strictly increase.
C1_OnlyLatestCommits ==
    [][(displayGeoPositive' # displayGeoPositive
          \/ displayGeoNegative' # displayGeoNegative)
       => /\ displayGeoPositive'.cycle = Len(cycles)
          /\ displayGeoNegative'.cycle = Len(cycles)
          /\ displayGeoPositive.cycle < Len(cycles)
          /\ displayGeoNegative.cycle < Len(cycles)]_vars

\* C1 witness: cycle A was superseded while its image loaded, its load then
\* completed and was discarded, and the committed pair is a later cycle's.
C1_Witness ==
    \E a \in 1..Len(cycles) :
        /\ cycles[a].pc = "dropped"
        /\ Committed
        /\ displayGeoPositive.cycle > a
        /\ displayGeoNegative.cycle > a

\* C2: in every state the committed positive and negative meshes are either
\* both absent or both present, and when present they were produced by the
\* same cycle from the same heightmap, each after its displacement pass.
C2_AtomicPair ==
    /\ (displayGeoPositive = NoGeo) <=> (displayGeoNegative = NoGeo)
    /\ Committed => Consistent(<<displayGeoPositive, displayGeoNegative>>)

\* C2 witness: a committed pair has been replaced by a later cycle's pair.
C2_Witness ==
    /\ Committed
    /\ cycles[displayGeoPositive.cycle].startPair[1] # NoGeo
    /\ cycles[displayGeoPositive.cycle].startPair[2] # NoGeo

\* C3: the step in which a cycle's image load fails changes neither committed
\* mesh, and while the failed cycle is the latest one the committed pair is
\* the pair that was committed when that cycle started (absent if none was).
C3_FailureCommitsNothing ==
    /\ [](\A c \in 1..Len(cycles) :
            (cycles[c].pc = "failed" /\ c = Len(cycles))
            => <<displayGeoPositive, displayGeoNegative>> = cycles[c].startPair)
    /\ [][\A c \in 1..Len(cycles) :
            (cycles[c].pc = "loading" /\ cycles'[c].pc = "failed")
            => /\ displayGeoPositive' = displayGeoPositive
               /\ displayGeoNegative' = displayGeoNegative]_vars

\* C3 witness: the latest cycle's image failed to load while an earlier pair
\* is committed.
C3_Witness ==
    /\ Len(cycles) > 0
    /\ cycles[Len(cycles)].pc = "failed"
    /\ Committed

\* C4: as long as no mesh pair has been committed, no export has serialized
\* anything or returned silently: every export request so far ended in an
\* alert telling the user the geometry is not available yet.
C4_ExportNotReady ==
    ~Committed
    => /\ lastExport \in {"none", "alertWait", "alertNotReady"}
       /\ exported = <<>>

\* C4 witness: an export was requested after mounting with no pair committed
\* and was answered with an alert.
C4_Witness ==
    /\ mounted
    /\ ~Committed
    /\ lastExport = "alertWait"

\* C5: whatever an export serializes is the pair committed at that moment,
\* and that pair is consistent: both meshes of one cycle, each with its
\* displacement pass finished.
C5_ExportReadsCommitted ==
    /\ [](lastExport = "serialized" => Consistent(exported))
    /\ [][exported' # exported
          => /\ exported' = <<displayGeoPositive, displayGeoNegative>>
             /\ Consistent(exported')]_vars

\* C5 witness: an export serialized the committed pair while the image load
\* of an earlier, superseded cycle was still in flight.
C5_Witness ==
    /\ lastExport = "serialized"
    /\ exported = <<displayGeoPositive, displayGeoNegative>>
    /\ \E a \in 1..Len(cycles) :
          a < exported[1].cycle /\ cycles[a].pc = "loading"

\* C6: while the latest cycle is debouncing or generating the busy signal is
\* true, and busy goes from true to false only in the step in which the
\* latest, uncancelled cycle finishes.
C6_BusyUntilLatestCommits ==
    /\ [](Len(cycles) > 0 /\ cycles[Len(cycles)].pc \in {"debounce", "loading"}
          => isProcessing)
    /\ [][(isProcessing /\ ~isProcessing')
          => /\ Len(cycles') = Len(cycles)
             /\ ~cycles[Len(cycles)].isCancelled
             /\ cycles[Len(cycles)].pc \in {"debounce", "loading"}
             /\ cycles'[Len(cycles)].pc = "done"]_vars

\* C6 witness: a superseded cycle ran to its end after a pair had been
\* committed, and busy is still true because the latest cycle is debouncing.
C6_Witness ==
    /\ Len(cycles) > 1
    /\ \E a \in 1..(Len(cycles) - 1) : cycles[a].pc = "dropped"
    /\ cycles[Len(cycles)].pc = "debounce"
    /\ Committed
    /\ isProcessing

\* a heightmap whose every pixel has full intensity
WhiteCanvas ==
    [width |-> MapSize, height |-> MapSize, hasCtx |-> TRUE, a |-> 0,
     b |-> Len(Intensities) - 1]

\* radius, times NormDen * WDen, of a shell vertex of geo lying on the x axis
\* at mid height once it has been displaced with full weight
FullyDisplacedRadius(geo) ==
    LET v == [x |-> geo.radius, y |-> 0, z |-> 0, nx |-> NormDen, ny |-> 0,
              nz |-> 0, u |-> 30, v |-> 20]
        r == DisplaceVertex(v, WhiteCanvas, geo.scale, geo.thr)
    IN  r.pos[1] * NormDen * WDen + r.off[1]

\* C10: the committed positive mesh is built at its cycle's cylinderRadius and
\* displaced with +embossDepth, the committed negative mesh is built at
\* cylinderRadius + embossDepth and displaced with -embossDepth, and a shell
\* vertex of the negative displaced with weight 1 lies at the positive's
\* undisplaced outer radius.
C10_NestingRadii ==
    Committed =>
        LET cfg == cycles[displayGeoPositive.cycle].cfg
        IN  /\ displayGeoPositive.radius = cfg.cylinderRadius
            /\ displayGeoPositive.scale = cfg.embossDepth
            /\ displayGeoPositive.thr = 9 * cfg.cylinderRadius
            /\ displayGeoNegative.radius = cfg.cylinderRadius + cfg.embossDepth
            /\ displayGeoNegative.scale = -cfg.embossDepth
            /\ FullyDisplacedRadius(displayGeoNegative)
                 = displayGeoPositive.radius * NormDen * WDen

\* C10 witness: a pair committed for a non-default radius and depth.
C10_Witness ==
    /\ Committed
    /\ displayGeoPositive.pass = "displaced"
    /\ cycles[displayGeoPositive.cycle].cfg.cylinderRadius = 400
    /\ cycles[displayGeoPositive.cycle].cfg.embossDepth = 12

\* every pixel of the canvas is background (intensity 0)
AllBackground(canvas) ==
    \A i \in 0..(canvas.width * canvas.height - 1) : Data(canvas, i * RGBA) = 0

\* the shell vertices of the mesh at mid height in the four axis directions
MidShell(geo) ==
    {[x |-> d[1] * geo.radius, y |-> 0, z |-> d[2] * geo.radius,
      nx |-> d[1] * NormDen, ny |-> 0, nz |-> d[2] * NormDen,
      u |-> CylinderU(d[1], d[2]), v |-> CylinderV(0, geo.height)] :
        d \in AxisDirs}

\* the displacement pass of the mesh moved none of its mid-height shell
\* vertices
ZeroDisplacement(geo) ==
    \A vert \in MidShell(geo) :
        DisplaceVertex(vert, geo.canvas, geo.scale, geo.thr).off = <<0, 0, 0>>

\* C13: a cycle whose generateHeightMap gets no drawing context does not
\* fail: it never waits for an image and never ends failed; in the step in
\* which it runs, both meshes are committed and busy becomes false; and the
\* heightmap of such a committed pair is background in every pixel, with
\* both meshes built and left undisplaced.
C13_NoContextCycle ==
    /\ [](\A c \in 1..Len(cycles) : cycles[c].ctx = "no" => cycles[c].pc = "done")
    /\ []((Committed /\ ~displayGeoPositive.canvas.hasCtx)
          => /\ AllBackground(displayGeoPositive.canvas)
             /\ displayGeoNegative.canvas = displayGeoPositive.canvas
             /\ displayGeoPositive.pass = "noctx"
             /\ displayGeoNegative.pass = "noctx"
             /\ ZeroDisplacement(displayGeoPositive)
             /\ ZeroDisplacement(displayGeoNegative))
    /\ [][\A c \in 1..Len(cycles) :
            (cycles[c].ctx = "unknown" /\ cycles'[c].ctx = "no")
            => /\ displayGeoPositive'.cycle = c
               /\ displayGeoNegative'.cycle = c
               /\ ~displayGeoPositive'.canvas.hasCtx
               /\ ~isProcessing']_vars

\* C13 witness: a cycle of an image configuration found no context, and its
\* pair is committed with busy false.
C13_Witness ==
    /\ Committed
    /\ ~displayGeoPositive.canvas.hasCtx
    /\ cycles[displayGeoPositive.cycle].cfg.patternType = "image"
    /\ cycles[displayGeoPositive.cycle].cfg.imageSrc = "img"
    /\ cycles[displayGeoPositive.cycle].ctx = "no"
    /\ ~isProcessing

\* the cycle's updateGeometry has called generateHeightMap
Rasterizing(pc) == pc \in {"loading", "done", "failed", "dropped"}

\* C15: rasterization is started only by the timer of the latest cycle, not
\* cancelled, whose configuration is the current one; a cycle superseded
\* while its timer was pending never starts rasterization afterwards; and no
\* cycle arms its timer twice, so a burst of changes, each arriving before
\* the previous timer fired, rasterizes once, with the last configuration.
C15_DebounceKeepsLast ==
    /\ [][\A c \in 1..Len(cycles) :
            (cycles[c].pc = "debounce" /\ Rasterizing(cycles'[c].pc))
            => /\ c = Len(cycles)
               /\ Len(cycles') = Len(cycles)
               /\ ~cycles[c].isCancelled
               /\ cycles[c].cfg = config]_vars
    /\ [][\A c \in 1..Len(cycles) :
            /\ (cycles[c].pc \in {"cleared", "skipped"}
                  => cycles'[c].pc = cycles[c].pc)
            /\ (cycles[c].pc # "debounce" => cycles'[c].pc # "debounce")
            /\ ((cycles[c].pc = "debounce" /\ c < Len(cycles'))
                  => ~Rasterizing(cycles'[c].pc))]_vars

\* C15 witness: two cycles in a row were superseded while debouncing and
\* never rasterized; the third, holding the current configuration, did and
\* committed.
C15_Witness ==
    /\ Len(cycles) >= 3
    /\ cycles[Len(cycles) - 2].pc = "cleared"
    /\ cycles[Len(cycles) - 1].pc = "cleared"
    /\ cycles[Len(cycles)].pc = "done"
    /\ cycles[Len(cycles)].cfg = config
    /\ displayGeoPositive.cycle = Len(cycles)
    /\ displayGeoPositive.canvas.pattern = Pattern(config, TRUE, TRUE)

\* C16: after the last configuration change the orchestrator eventually
\* returns to Idle with the busy signal false and stays there, whether the
\* cycle's rasterization succeeds or its image fails to load.
C16_EventuallyIdle == <>[](~isProcessing)

\* what the App component and the user can observe of CylinderObject: the
\* busy signal, the registered export function, the rendered pair and the
\* outcome of an export
UIView ==
    <<isProcessing, exportFn, displayGeoPositive, displayGeoNegative, lastExport>>

\* C17: the failure of an image load is surfaced to the UI as an outcome of
\* the cycle: the step in which the load fails changes something the UI
\* observes.
C17_FailureSurfaced ==
    [][\A c \in 1..Len(cycles) :
          (cycles[c].pc = "loading" /\ cycles'[c].pc = "failed")
          => UIView' # UIView]_vars

\* the buffers of a mesh: allocated by one cycle for one of its two locals
BufferOf(geo) == <<geo.cycle, geo.buf>>

\* the buffers of the meshes committed at present
CommittedBuffers ==
    {BufferOf(g) : g \in {h \in {displayGeoPositive, displayGeoNegative} : h # NoGeo}}

\* C23: the committed positive and negative never share a buffer, and each
\* was displaced by its own cycle from that cycle's own heightmap; a step
\* that changes a committed mesh installs buffers that no committed mesh
\* had, allocated by the cycle that finishes in that step and already
\* displaced, so a committed buffer is replaced and never written again;
\* and an export changes no committed mesh.
C23_BufferOwnership ==
    /\ [](Committed
          => /\ BufferOf(displayGeoPositive) # BufferOf(displayGeoNegative)
             /\ displayGeoPositive.canvas.cycle = displayGeoPositive.cycle
             /\ displayGeoNegative.canvas.cycle = displayGeoNegative.cycle)
    /\ [][(displayGeoPositive' # displayGeoPositive
            \/ displayGeoNegative' # displayGeoNegative)
          => /\ BufferOf(displayGeoPositive') \notin CommittedBuffers
             /\ BufferOf(displayGeoNegative') \notin CommittedBuffers
             /\ BufferOf(displayGeoPositive') # BufferOf(displayGeoNegative')
             /\ displayGeoPositive'.pass # "built"
             /\ displayGeoNegative'.pass # "built"
             /\ cycles[displayGeoPositive'.cycle].pc # "done"
             /\ cycles'[displayGeoPositive'.cycle].pc = "done"
             /\ displayGeoNegative'.cycle = displayGeoPositive'.cycle
             /\ lastExport' = lastExport
             /\ exported' = exported]_vars

\* C23 witness: an export serialized a committed pair, a later cycle then
\* committed its own pair in its place, and a cycle cancelled in between
\* ran to its end.
C23_Witness ==
    /\ Committed
    /\ lastExport = "serialized"
    /\ exported # <<displayGeoPositive, displayGeoNegative>>
    /\ exported = cycles[displayGeoPositive.cycle].startPair
    /\ \E a \in 1..Len(cycles) :
          cycles[a].pc = "dropped" /\ a < displayGeoPositive.cycle

\* C25: an export request that arrives while busy is true serializes nothing
\* and ends in the alert asking the user to wait; the export function is
\* called, and anything serialized, only in a step that starts with busy
\* false and an export function registered.
C25_NoExportWhileBusy ==
    [][(lastExport' # lastExport \/ exported' # exported)
       => /\ isProcessing => (lastExport' = "alertWait" /\ exported' = exported)
          /\ lastExport' \in {"serialized", "returned"}
               => (~isProcessing /\ exportFn)
          /\ exported' # exported
               => (~isProcessing /\ exportFn /\ lastExport' = "serialized")]_vars

\* C25 witness: with a pair committed and rendered, an export was requested
\* while a newer cycle kept busy true; it was answered with the alert and
\* nothing has been serialized.
C25_Witness ==
    /\ Committed
    /\ exportFn
    /\ isProcessing
    /\ lastExport = "alertWait"
    /\ exported = <<>>

\* the pair was generated from the configuration cfg: built and displaced
\* with its radius, height and depth, on a heightmap of its pattern
GeneratedFrom(pair, cfg) ==
    /\ pair[1].radius = cfg.cylinderRadius
    /\ pair[1].height = cfg.cylinderHeight
    /\ pair[1].scale = cfg.embossDepth
    /\ pair[2].radius = cfg.cylinderRadius + cfg.embossDepth
    /\ pair[2].height = cfg.cylinderHeight
    /\ pair[2].scale = -cfg.embossDepth
    /\ pair[2].canvas = pair[1].canvas
    /\ pair[1].canvas.pattern
         \in {Pattern(cfg, h, d) : h \in BOOLEAN, d \in BOOLEAN}
    /\ (pair[1].canvas.pattern = <<"blank", "">>)
         => (~pair[1].canvas.hasCtx \/ cfg.patternType = "image")

---------------------------------------------------------------------------
(* Properties of applyDisplacement (specification SpecDisp) *)

Unmoved == dout.pos = <<vtx.x, vtx.y, vtx.z>> /\ dout.off = <<0, 0, 0>>

\* the vertex would be displaced were it not for the radius check or the
\* safe zone: a side normal, a context, a full-intensity sample, a depth
SideOnWhite ==
    /\ dpar.canvas.hasCtx
    /\ dpar.canvas.a = 0
    /\ dpar.canvas.b = Len(Intensities) - 1
    /\ dpar.scale # 0
    /\ vtx.ny = 0
    /\ vtx.nx # 0

InsideThreshold ==
    dpar.thr > 0
    /\ ThrDen * ThrDen * (vtx.x * vtx.x + vtx.z * vtx.z) < dpar.thr * dpar.thr

\* C7: a vertex whose planar radius is strictly below minRadiusThreshold
\* keeps its position, for every heightmap, depth, normal and UV.
C7_InsideRadiusUnmoved ==
    (dout # NoOut /\ InsideThreshold) => Unmoved

\* C7 witness: a vertex inside the threshold that has a side normal, a UV in
\* the band and a full-intensity sample was processed and did not move.
C7_Witness ==
    /\ dout # NoOut
    /\ InsideThreshold
    /\ SideOnWhite
    /\ vtx.v = 20
    /\ Unmoved

\* C8: a shell vertex whose v is below 0.05 or above 0.95 keeps its position,
\* whatever intensity is sampled and whatever the depth.
C8_SafeZoneUnmoved ==
    (dout # NoOut /\ ~InsideThreshold /\ (20 * vtx.v < UVDen \/ 20 * vtx.v > 19 * UVDen)) => Unmoved

\* C8 witness: a shell vertex at the top edge (v = 1) with a side normal and
\* a full-intensity heightmap was processed and did not move.
C8_Witness ==
    /\ dout # NoOut
    /\ ~InsideThreshold
    /\ SideOnWhite
    /\ vtx.v = 40
    /\ Unmoved

\* C9: the weight lies in [0, 1], the vertex moves by weight * depth along its
\* normal, and (the normal being a unit vector or zero) each component of
\* the move is bounded by that of depth * normal, so the vertex ends no
\* farther than |depth| from where it was.
C9_BoundedDisplacement ==
    dout # NoOut =>
        /\ dout.weight >= 0
        /\ dout.weight <= WDen
        /\ vtx.nx * vtx.nx + vtx.ny * vtx.ny + vtx.nz * vtx.nz
             \in {0, NormDen * NormDen}
        /\ dout.pos = <<vtx.x, vtx.y, vtx.z>>
        /\ dout.off = <<vtx.nx * dout.weight * dpar.scale,
                        vtx.ny * dout.weight * dpar.scale,
                        vtx.nz * dout.weight * dpar.scale>>
        /\ \A i \in 1..3 :
              Abs(dout.off[i]) <= Abs(<<vtx.nx, vtx.ny, vtx.nz>>[i])
                                    * WDen * Abs(dpar.scale)

\* C9 witness: a vertex moved with a weight strictly between 0 and 1.
C9_Witness ==
    /\ dout # NoOut
    /\ dout.weight > 0
    /\ dout.weight < WDen
    /\ dout.off # <<0, 0, 0>>

\* C19: for every vertex that reaches the sampling step, whatever its u
\* (negative, 1, above 1), the sampled pixel is
\* (floor(u * W) mod W, floor(v * H) mod H) with the non-negative modulus,
\* so 0 <= px < W and 0 <= py < H, and the index (py * W + px) * 4 lies
\* inside the buffer, where a byte is defined; u is not mirrored.
C19_SampleInsideBuffer ==
    (dout # NoOut /\ dout.sample # <<>>) =>
        LET W == dpar.canvas.width
            H == dpar.canvas.height
            px == dout.sample[1]
            py == dout.sample[2]
            index == dout.sample[3]
        IN  /\ px = ((vtx.u * W) \div UVDen) % W
            /\ py = ((vtx.v * H) \div UVDen) % H
            /\ px \in 0..(W - 1)
            /\ py \in 0..(H - 1)
            /\ index = (py * W + px) * 4
            /\ index \in 0..(W * H * 4 - 4)
            /\ Data(dpar.canvas, index) \in 0..MaxByte

\* C19 witness: a vertex with a negative u (-0.05) was sampled, in the last
\* column of the heightmap.
C19_Witness ==
    /\ dout # NoOut
    /\ dout.sample # <<>>
    /\ vtx.u < 0
    /\ dout.sample[1] = dpar.canvas.width - 1

\* C20: a vertex whose normal has a vertical component of absolute value
\* above 0.5 keeps its position, whatever its planar radius, its UV, the
\* sampled intensity and the depth.
C20_CapUnmoved ==
    (dout # NoOut /\ 2 * Abs(vtx.ny) > NormDen) => Unmoved

\* C20 witness: a vertex on the outer radius with a normal tilted to
\* ny = 0.6, a v inside the band, a full-intensity sample under it and a
\* non-zero depth was processed and did not move.
C20_Witness ==
    /\ dout # NoOut
    /\ ~InsideThreshold
    /\ vtx.ny = 9
    /\ vtx.nx = 12
    /\ vtx.v = 20
    /\ dpar.canvas.hasCtx
    /\ dpar.canvas.a = 0
    /\ dpar.canvas.b = Len(Intensities) - 1
    /\ dpar.scale # 0
    /\ Unmoved

---------------------------------------------------------------------------
(* Properties of a built and displaced pair (specification SpecMesh) *)

\* distance from the axis, times NormDen * WDen, of a displaced vertex that
\* lies on a coordinate axis and moved along it
EffectiveRadius(out) ==
    Abs(out.pos[1] * NormDen * WDen + out.off[1])
      + Abs(out.pos[3] * NormDen * WDen + out.off[3])

ShellRadii(mesh) == {EffectiveRadius(r.out) : r \in {q \in mesh : q.vert.part = "shell"}}
ShellWeights(mesh) == {r.out.weight : r \in {q \in mesh : q.vert.part = "shell"}}

SetMax(S) == CHOOSE m \in S : \A n \in S : n <= m
SetMin(S) == CHOOSE m \in S : \A n \in S : m <= n

OuterShell(vert, radius) ==
    /\ vert.part # "plug"
    /\ 25 * (vert.x * vert.x + vert.z * vert.z) > 16 * radius * radius

\* the vertex carries the cylindrical UV of its position
CylindricalUV(vert, height) ==
    /\ vert.u = CylinderU(vert.x, vert.z)
    /\ vert.v = CylinderV(vert.y, height)

\* the property of C21 for one displaced mesh built at the given radius
OnlyShellMoves(mesh, radius, height) ==
    \A r \in mesh :
        /\ ~OuterShell(r.vert, radius)
             => r.out.off = <<0, 0, 0>> /\ r.out.sample = <<>>
        /\ (r.out.off # <<0, 0, 0>> \/ r.out.sample # <<>>)
             => OuterShell(r.vert, radius) /\ CylindricalUV(r.vert, height)

\* C21: in both meshes a vertex the builder did not classify as outer shell
\* is never moved (it does not even reach the sampling step); equivalently
\* every vertex that is sampled or moved was classified as outer shell and
\* carries the cylindrical UV of its position.
C21_OnlyShellMoves ==
    dout # NoOut =>
        /\ OnlyShellMoves(dout.pos, dpar.cfg.cylinderRadius,
                          dpar.cfg.cylinderHeight)
        /\ OnlyShellMoves(dout.neg,
                          dpar.cfg.cylinderRadius + dpar.cfg.embossDepth,
                          dpar.cfg.cylinderHeight)

\* C21 witness: under an all-white heightmap and with a positive depth, a
\* hole-wall vertex that kept a default UV inside the band did not move
\* while a shell vertex of the same mesh did.
C21_Witness ==
    /\ dout # NoOut
    /\ dpar.cfg.embossDepth > 0
    /\ dpar.canvas = WhiteCanvas
    /\ \E r \in dout.pos :
          /\ r.vert.part = "hole"
          /\ ~OuterShell(r.vert, dpar.cfg.cylinderRadius)
          /\ r.vert.v = UVDen \div 2
          /\ r.out.off = <<0, 0, 0>>
    /\ \E r \in dout.pos :
          r.vert.part = "shell" /\ r.out.off # <<0, 0, 0>>

\* the shell vertices of the two displaced meshes that lie at the same shell
\* location (u, v)
ShellPairs ==
    {<<p, n>> \in dout.pos \X dout.neg :
        /\ p.vert.part = "shell"
        /\ n.vert.part = "shell"
        /\ p.vert.u = n.vert.u
        /\ p.vert.v = n.vert.v}

\* C24: both displacement passes of a cycle read the one heightmap the cycle
\* rasterized; at every shell location the positive and the negative vertex
\* sample the same pixel and get the same weight w, and the positive moves
\* by +w * embossDepth, the negative by -w * embossDepth, along the normal.
C24_SameWeightBothPasses ==
    dout # NoOut =>
        /\ PositiveGeo(1, dpar.cfg, dpar.canvas).canvas = dpar.canvas
        /\ NegativeGeo(1, dpar.cfg, dpar.canvas).canvas = dpar.canvas
        /\ \A pr \in ShellPairs :
              LET p == pr[1]
                  n == pr[2]
                  w == p.out.weight
                  d == dpar.cfg.embossDepth
              IN  /\ n.out.weight = w
                  /\ n.out.sample = p.out.sample
                  /\ <<n.vert.nx, n.vert.ny, n.vert.nz>>
                       = <<p.vert.nx, p.vert.ny, p.vert.nz>>
                  /\ p.out.off = <<p.vert.nx * w * d, p.vert.ny * w * d,
                                   p.vert.nz * w * d>>
                  /\ n.out.off = <<-(n.vert.nx * w * d), -(n.vert.ny * w * d),
                                   -(n.vert.nz * w * d)>>

\* C24 witness: at one shell location both meshes got the same weight
\* strictly between 0 and 1 and moved in opposite directions.
C24_Witness ==
    /\ dout # NoOut
    /\ dpar.cfg.embossDepth > 0
    /\ \E pr \in ShellPairs :
          /\ pr[1].out.weight > 0
          /\ pr[1].out.weight < WDen
          /\ pr[2].out.weight = pr[1].out.weight
          /\ pr[1].out.off # <<0, 0, 0>>
          /\ pr[2].out.off # <<0, 0, 0>>
          /\ pr[2].out.off # pr[1].out.off

---------------------------------------------------------------------------
(* Properties of the smoothstep weight (specification SpecWeight) *)

---------------------------------------------------------------------------
(* Properties of the built solid (specification SpecBuild) *)

\* depth of the open socket above the plug and of the one below it, doubled
TopSocket2    == dout.top2 - dout.plugTop2
BottomSocket2 == dout.plugBottom2 - dout.bottom2

---------------------------------------------------------------------------
(* Properties of the stamping loops (specification SpecTile) *)

\* C27: the tile-stamping loops terminate for every configuration in the
\* accepted ranges, including a zero tile period (empty text with zero
\* horizontal spacing): generateHeightMap eventually returns the canvas.
C27_TilingTerminates == <>(dout # NoOut /\ dout.pc = "returned")

=============================================================================
